---- MODULE Spec2Model ----
(***************************************************************************)
(* A model of brickbreaker's physics synchronisation layer                 *)
(* (src/src/game/physics.rs, wired up in src/src/game/mod.rs) and of the   *)
(* fixed-timestep window loop (src/gfx-lib/src/window.rs).                 *)
(*                                                                         *)
(* Spec      the entity/component store, the physics state and the four    *)
(*           systems of the physics dispatcher.                            *)
(* SyncSpec  the same store with the two Send systems run on their own     *)
(*           (outbound sync without a solver step).                        *)
(* LoopSpec  the event-loop closure of window.rs.                          *)
(* LoopLiveSpec  LoopSpec with winit ending the loop once Exit is set.     *)
(* StepSpec  the pipeline over two entities built at startup, with the     *)
(*           contact events of the solver as inputs of the step.           *)
(*                                                                         *)
(* Vectors are modelled by one coordinate.  f64 values are modelled as     *)
(* exact rationals <<numerator, denominator>>; rounding is not modelled.   *)
(***************************************************************************)
EXTENDS Integers, Sequences, FiniteSets, TLC

\* ------------------------------------------------------------------ bounds

\* Component-store operations performed by gameplay code, over the whole run.
MaxOps == 3

\* Dispatches of the physics pipeline, over the whole run.
MaxTicks == 3

\* Iterations of the event loop (MainEventsCleared events), over the whole run.
MaxFrames == 3

\* Window events (Resized, CloseRequested) delivered, over the whole run.
MaxWinEvents == 2

\* Contact events the solver reports in one step.
MaxContacts == 3

\* Measured frame times, in microseconds.
FrameTimes == {5, 16, 17, 16650, 16667, 16800, 30000, 600000}

\* Window sizes a Resized event carries, and window ids of CloseRequested.
Sizes == {<<800, 600>>, <<1024, 768>>}
WindowIds == {"own", "other"}

\* Entity index slots of the store.
Ids == {0, 1}

\* Pixel positions and velocities gameplay code writes.
Positions == {<<0, 1>>, <<96, 1>>}
Velocities == {0, 15}

\* BodyStatus values gameplay code gives a rigidbody.
Statuses == {"Dynamic", "Kinematic"}

\* ---------------------------------------------------------------- rationals

Abs(n) == IF n < 0 THEN -n ELSE n

RECURSIVE Gcd(_, _)
Gcd(a, b) == IF b = 0 THEN a ELSE Gcd(b, a % b)

Rat(n, d) == LET g == Gcd(Abs(n), Abs(d)) IN <<n \div g, d \div g>>

Lcm(a, b) == (a \div Gcd(a, b)) * b

\* The numerator of a over the denominator d, a multiple of a's own.
Over(a, d) == a[1] * (d \div a[2])

RatMul(a, b) ==
    LET x == Rat(a[1], b[2])
        y == Rat(b[1], a[2])
    IN  Rat(x[1] * y[1], x[2] * y[2])

RatAdd(a, b) == LET d == Lcm(a[2], b[2]) IN Rat(Over(a, d) + Over(b, d), d)

RatSub(a, b) == LET d == Lcm(a[2], b[2]) IN Rat(Over(a, d) - Over(b, d), d)

RatAbs(a) == <<Abs(a[1]), a[2]>>

RatLess(a, b) == LET d == Lcm(a[2], b[2]) IN Over(a, d) < Over(b, d)

RatGeq(a, b) == ~RatLess(a, b)

\* The integer part of a / b, for a >= 0 and b > 0.
RatFloorDiv(a, b) == LET d == Lcm(a[2], b[2]) IN Over(a, d) \div Over(b, d)

Min(S) == CHOOSE x \in S : \A y \in S : x <= y

\* ----------------------------------------------------------- program constants

PIXELS_PER_WORLD_UNIT == 32

\* Faulty variant of WORLD_UNIT_RATIO: no scaling on the way into the solver.
WORLD_UNIT_RATIO_One == <<1, 1>>

WORLD_UNIT_RATIO == Rat(1, PIXELS_PER_WORLD_UNIT)

\* The solver's timestep: nphysics' default, 1/60 s per step().
StepHz == 60

VARIABLES
    alive,          \* Entities: the slots holding a live entity
    gen,            \* Entities: the generation of the entity in each slot
    transforms,     \* storage of TransformComponent
    rigidbodies,    \* storage of RigidbodyComponent (FlaggedStorage)
    colliders,      \* storage of ColliderComponent (FlaggedStorage)
    tEvRb,          \* transform events not yet read by RigidbodySend's reader
    tEvCol,         \* transform events not yet read by ColliderSend's reader
    rbEv,           \* rigidbody events not yet read by RigidbodySend's reader
    colEv,          \* collider events not yet read by ColliderSend's reader
    physics,        \* the PhysicsState resource
    rbSendSys,      \* the bitsets of RigidbodySendPhysicsSystem
    colSendSys,     \* the bitsets of ColliderSendPhysicsSystem
    dispatcher,     \* the systems of the dispatch in progress, in order
    pc,             \* index of the system that runs next; 0 between dispatches
    ran,            \* how often each system ran in the current dispatch
    stepCalls,      \* calls of PhysicsState::step in the current dispatch
    panicked,       \* an unwrap() on None aborted the process
    synced,         \* history: outbound syncs completed in a row with no event between (at most 2)
    last,           \* the system or operation that ran last
    hRemoved,       \* history: rigidbody removals, pending and read by the last Send
    nticks,         \* dispatches started
    evlog,          \* history: events written to each table, read by each reader
    hWrite,         \* history: the Transform write <<id, p>> made last, with no mutation since
    hPushed,        \* history: ids whose body / collider had set_position called this tick
    hMissed,        \* history: per id, -1, or the Rigidbody-Send runs started with a Transform
                    \*          since the run that skipped the rigidbody's insert for lack of one
    contact_events, \* the contact events the solver reported at this tick's step
    collision_events, \* EventChannel<CollisionEvent>: what this tick's Step run wrote
    nops            \* store operations performed

VARIABLES
    fps_timer,      \* Duration since the last fps report, in microseconds
    fps_counter,    \* ticks since the last fps report
    fps,            \* the last reported ticks per second
    time,           \* simulated time, in seconds
    current_time,   \* Instant of the last MainEventsCleared, in microseconds
    accumulator,    \* unsimulated time, in seconds
    frame_time,     \* the last measured frame Duration, in microseconds
    ticks,          \* the tick counter
    is_initialized,
    control_flow,   \* winit's ControlFlow as the loop sees it after a callback
    renderer,       \* the Renderer: its size and whether its swapchain is built
    redraw,         \* winit: a redraw was requested and not yet delivered
    phase,          \* winit: where the current iteration of the loop stands
    lastEvent,      \* history: the event handled last
    prevEvent,      \* history: the event handled before it
    delta,          \* history: snapped_delta_time_seconds of the last iteration
    initCalls,      \* history: calls of init_callback
    tickCalls,      \* history: calls of tick_callback
    renderCalls,    \* history: calls of render_callback
    renderArg,      \* history: the tick count the last render_callback got
    tickBeforeInit, \* history: tick_callback ran before init_callback
    frames,         \* history: MainEventsCleared events handled
    winEvents,      \* history: window events delivered
    redrawRequests, \* history: calls of window.request_redraw by the last handler
    closeIds,       \* history: the window ids of the CloseRequested events handled
    closedAt        \* history: iterations handled when Exit was set; -1 before

lvars == <<fps_timer, fps_counter, fps, time, current_time, accumulator, frame_time,
           ticks, is_initialized, control_flow, renderer, redraw, phase, lastEvent,
           delta, initCalls, tickCalls, renderCalls, renderArg, tickBeforeInit,
           frames, winEvents, redrawRequests, closeIds, closedAt, prevEvent>>

pvars == <<alive, gen, transforms, rigidbodies, colliders, tEvRb, tEvCol, rbEv,
           colEv, physics, rbSendSys, colSendSys, dispatcher, pc, ran, stepCalls,
           panicked, synced, last, hRemoved, nticks, evlog, hWrite, hPushed,
           hMissed, contact_events, collision_events, nops>>

vars == <<pvars, lvars>>

\* ------------------------------------------------------------- the store

\* struct Entity: index and generation.
Entity(id) == <<id, gen[id]>>

AbsentT == [present |-> FALSE, position |-> <<0, 1>>, last_position |-> <<0, 1>>]

AbsentRb ==
    [present |-> FALSE, handle |-> {}, velocity |-> 0, last_velocity |-> 0,
     status |-> "Dynamic"]

AbsentCol == [present |-> FALSE]

\* RigidbodyComponent::new: the handle starts as None (the empty set).
NewRigidbody(v, status) ==
    [present |-> TRUE, handle |-> {}, velocity |-> v, last_velocity |-> v,
     status |-> status]

\* enum ComponentEvent
Kinds == {"Inserted", "Modified", "Removed"}

NoCount == [k \in Kinds |-> 0]

\* What a reader has not read yet: the ids by kind of event, as the systems fold
\* them into bitsets, and the number of events of each kind.
NoEvents == [ins |-> {}, mod |-> {}, rem |-> {}, n |-> NoCount]

\* FlaggedStorage writes one ComponentEvent to its channel per insert, mutable
\* access and remove; a reader sees every event written since its last read.
Emit(ev, kind, ids) ==
    CASE kind = "Inserted" -> [ev EXCEPT !.ins = @ \cup ids, !.n[kind] = @ + Cardinality(ids)]
      [] kind = "Modified" -> [ev EXCEPT !.mod = @ \cup ids, !.n[kind] = @ + Cardinality(ids)]
      [] kind = "Removed" -> [ev EXCEPT !.rem = @ \cup ids, !.n[kind] = @ + Cardinality(ids)]

\* Faulty variant of ReadAll: the reader is not advanced, so the events are read again.
ReadAll_Stuck(ev) == ev

\* EventChannel::read: the reader is advanced past everything it returned.
ReadAll(ev) == NoEvents

\* The component tables with a FlaggedStorage, and the ReaderIds the two Send
\* systems register in setup.
Tables == {"transform", "rigidbody", "collider"}

Readers == {"RigidbodySend.transform", "ColliderSend.transform",
            "RigidbodySend.rigidbody", "ColliderSend.collider"}

\* History of the channels: k events of a kind were written to a table; a
\* reader was handed the events ev by channel().read.
Wrote(log, table, kind, k) == [log EXCEPT !.written[table][kind] = @ + k]

Observed(log, reader, ev) ==
    [log EXCEPT !.observed[reader] = [k \in Kinds |-> @[k] + ev.n[k]]]

EmptyMap == [e \in {} |-> 0]

MapInsert(m, k, v) == [x \in DOMAIN m \cup {k} |-> IF x = k THEN v ELSE m[x]]

MapRemove(m, k) == [x \in DOMAIN m \ {k} |-> m[x]]

Range(m) == {m[x] : x \in DOMAIN m}

\* PhysicsState::new: empty sets and maps, and the ground body, the first body
\* inserted.
NewPhysicsState ==
    [bodies |-> [h \in {0} |-> [kind |-> "Ground", position |-> <<0, 1>>,
                                velocity |-> 0, status |-> "Static",
                                user_data |-> {}]],
     colliders |-> EmptyMap,
     ent_body_handles |-> EmptyMap,
     ent_collider_handles |-> EmptyMap,
     ground_body_handle |-> 0,
     nextBody |-> 1,
     nextCollider |-> 0]

\* ------------------------------------------------- RigidbodySendPhysicsSystem

\* The state a system's loops thread through: the physics resource, the
\* rigidbody storage, the ids a mutable join flagged Modified, the ids whose
\* solver object had set_position called, and whether an unwrap() panicked.
SysState(ph, rbs) ==
    [physics |-> ph, rigidbodies |-> rbs, flagged |-> {}, pushed |-> {},
     panicked |-> FALSE]

\* Body of "Handle inserted rigidbodies": a stale body is removed, a body is
\* built from the transform and the component and recorded in the map and in
\* the component.  The join borrows the rigidbody mutably, which flags it.
InsertBody(st, id) ==
    LET ent == Entity(id)
        ph == st.physics
        bodies1 == IF ent \in DOMAIN ph.ent_body_handles
                   THEN MapRemove(ph.bodies, ph.ent_body_handles[ent])
                   ELSE ph.bodies
        rigid_body == [kind |-> "RigidBody",
                       position |-> RatMul(transforms[id].position, WORLD_UNIT_RATIO),
                       velocity |-> st.rigidbodies[id].velocity,
                       status |-> st.rigidbodies[id].status,
                       user_data |-> {ent}]
        rb_handle == ph.nextBody
    IN  [st EXCEPT !.physics = [ph EXCEPT !.bodies = MapInsert(bodies1, rb_handle, rigid_body),
                                          !.ent_body_handles = MapInsert(@, ent, rb_handle),
                                          !.nextBody = rb_handle + 1],
                   !.rigidbodies[id].handle = {rb_handle},
                   !.flagged = @ \cup {id}]

RECURSIVE HandleInsertedBodies(_, _)
HandleInsertedBodies(st, ids) ==
    IF ids = {} THEN st
    ELSE LET id == Min(ids) IN HandleInsertedBodies(InsertBody(st, id), ids \ {id})

\* A "Handle modified rigidbodies" body that pushes nothing.
ModifyBody_Skip(st, id) == st

\* Body of "Handle modified rigidbodies": the component's velocity is pushed
\* into the mapped body; rigid_body_mut(..).unwrap() panics on a missing body.
ModifyBody(st, id) ==
    LET ent == Entity(id)
        ph == st.physics
    IN  IF st.panicked \/ ent \notin DOMAIN ph.ent_body_handles THEN st
        ELSE LET rb_handle == ph.ent_body_handles[ent] IN
             IF rb_handle \notin DOMAIN ph.bodies THEN [st EXCEPT !.panicked = TRUE]
             ELSE IF ph.bodies[rb_handle].kind # "RigidBody" THEN [st EXCEPT !.panicked = TRUE]
             ELSE [st EXCEPT !.physics.bodies[rb_handle].velocity = st.rigidbodies[id].velocity]

RECURSIVE HandleModifiedBodies(_, _)
HandleModifiedBodies(st, ids) ==
    IF ids = {} THEN st
    ELSE LET id == Min(ids) IN HandleModifiedBodies(ModifyBody(st, id), ids \ {id})

\* Body of "Handle removed rigidbodies": the mapped body and the map entry go
\* together; without a map entry only a message is printed.
RemoveBody(st, id) ==
    LET ent == Entity(id)
        ph == st.physics
    IN  IF st.panicked \/ ent \notin DOMAIN ph.ent_body_handles THEN st
        ELSE [st EXCEPT !.physics.bodies = MapRemove(@, ph.ent_body_handles[ent]),
                        !.physics.ent_body_handles = MapRemove(@, ent)]

RECURSIVE HandleRemovedBodies(_, _)
HandleRemovedBodies(st, ids) ==
    IF ids = {} THEN st
    ELSE LET id == Min(ids) IN HandleRemovedBodies(RemoveBody(st, id), ids \ {id})

\* Body of "Handle modified transforms": the transform position, in world
\* units, is pushed into the mapped body.
PushBodyPosition(st, id) ==
    LET ent == Entity(id)
        ph == st.physics
    IN  IF st.panicked \/ ent \notin DOMAIN ph.ent_body_handles THEN st
        ELSE LET rb_handle == ph.ent_body_handles[ent] IN
             IF rb_handle \notin DOMAIN ph.bodies THEN [st EXCEPT !.panicked = TRUE]
             ELSE IF ph.bodies[rb_handle].kind # "RigidBody" THEN [st EXCEPT !.panicked = TRUE]
             ELSE [st EXCEPT !.physics.bodies[rb_handle].position =
                                 RatMul(transforms[id].position, WORLD_UNIT_RATIO),
                             !.pushed = @ \cup {id}]

RECURSIVE HandleModifiedTransformsRb(_, _)
HandleModifiedTransformsRb(st, ids) ==
    IF ids = {} THEN st
    ELSE LET id == Min(ids) IN HandleModifiedTransformsRb(PushBodyPosition(st, id), ids \ {id})

\* The joins of RigidbodySend::run: which ids each loop visits.  &entities
\* yields the live entities only.
JoinInsertedBodies(inserted_bodies) ==
    {id \in inserted_bodies : alive[id] /\ transforms[id].present /\ rigidbodies[id].present}

JoinModifiedBodies(modified_bodies) ==
    {id \in modified_bodies : alive[id] /\ rigidbodies[id].present}

JoinRemovedBodies(removed_bodies) == {id \in removed_bodies : alive[id]}

JoinModifiedTransformsRb(modified_transforms) ==
    {id \in modified_transforms : alive[id] /\ transforms[id].present /\ rigidbodies[id].present}

\* RigidbodySend::run as a function of the events read: inserted, then
\* modified, then removed, then modified transforms.
RigidbodySendRun(tev, rev) ==
    LET modified_transforms == tev.ins \cup tev.mod
        s1 == HandleInsertedBodies(SysState(physics, rigidbodies), JoinInsertedBodies(rev.ins))
        s2 == HandleModifiedBodies(s1, JoinModifiedBodies(rev.mod))
        s3 == HandleRemovedBodies(s2, JoinRemovedBodies(rev.rem))
    IN  HandleModifiedTransformsRb(s3, JoinModifiedTransformsRb(modified_transforms))

\* -------------------------------------------------- ColliderSendPhysicsSystem

\* Body of "Handle inserted colliders": a stale collider is removed; the new
\* one is attached to the entity's mapped body with zero translation, or to the
\* ground at the transform position in world units.
InsertColliderBody(st, id) ==
    LET ent == Entity(id)
        ph == st.physics
        colliders1 == IF ent \in DOMAIN ph.ent_collider_handles
                      THEN MapRemove(ph.colliders, ph.ent_collider_handles[ent])
                      ELSE ph.colliders
        attached == ent \in DOMAIN ph.ent_body_handles
        parent_body_handle == IF attached THEN ph.ent_body_handles[ent]
                              ELSE ph.ground_body_handle
        translation == IF attached THEN <<0, 1>>
                       ELSE RatMul(transforms[id].position, WORLD_UNIT_RATIO)
        collider == [parent |-> parent_body_handle, position |-> translation,
                     user_data |-> {ent}]
        collider_handle == ph.nextCollider
    IN  [st EXCEPT !.physics =
            [ph EXCEPT !.colliders = MapInsert(colliders1, collider_handle, collider),
                       !.ent_collider_handles = MapInsert(@, ent, collider_handle),
                       !.nextCollider = collider_handle + 1]]

RECURSIVE HandleInsertedColliders(_, _)
HandleInsertedColliders(st, ids) ==
    IF ids = {} THEN st
    ELSE LET id == Min(ids) IN HandleInsertedColliders(InsertColliderBody(st, id), ids \ {id})

\* "Handle modified colliders": both branches only print.
HandleModifiedColliders(st, ids) == st

\* Body of "Handle removed colliders".
RemoveColliderBody(st, id) ==
    LET ent == Entity(id)
        ph == st.physics
    IN  IF ent \notin DOMAIN ph.ent_collider_handles THEN st
        ELSE [st EXCEPT !.physics.colliders = MapRemove(@, ph.ent_collider_handles[ent]),
                        !.physics.ent_collider_handles = MapRemove(@, ent)]

RECURSIVE HandleRemovedColliders(_, _)
HandleRemovedColliders(st, ids) ==
    IF ids = {} THEN st
    ELSE LET id == Min(ids) IN HandleRemovedColliders(RemoveColliderBody(st, id), ids \ {id})

\* Body of "Handle modified transforms" of ColliderSend: colliders.get_mut(..)
\* .unwrap() panics when the solver no longer holds the mapped collider.
PushColliderPosition(st, id) ==
    LET ent == Entity(id)
        ph == st.physics
    IN  IF st.panicked \/ ent \notin DOMAIN ph.ent_collider_handles THEN st
        ELSE LET collider_handle == ph.ent_collider_handles[ent] IN
             IF collider_handle \notin DOMAIN ph.colliders THEN [st EXCEPT !.panicked = TRUE]
             ELSE [st EXCEPT !.physics.colliders[collider_handle].position =
                                 RatMul(transforms[id].position, WORLD_UNIT_RATIO),
                             !.pushed = @ \cup {id}]

RECURSIVE HandleModifiedTransformsCol(_, _)
HandleModifiedTransformsCol(st, ids) ==
    IF ids = {} THEN st
    ELSE LET id == Min(ids) IN HandleModifiedTransformsCol(PushColliderPosition(st, id), ids \ {id})

JoinInsertedColliders(inserted_colliders) ==
    {id \in inserted_colliders : alive[id] /\ transforms[id].present /\ colliders[id].present}

JoinModifiedColliders(modified_colliders) ==
    {id \in modified_colliders : alive[id] /\ colliders[id].present}

JoinRemovedColliders(removed_colliders) == {id \in removed_colliders : alive[id]}

JoinModifiedTransformsCol(modified_transforms) ==
    {id \in modified_transforms :
        alive[id] /\ transforms[id].present /\ colliders[id].present
        /\ ~rigidbodies[id].present}

\* ColliderSend::run as a function of the events read.
ColliderSendRun(tev, cev) ==
    LET modified_transforms == tev.ins \cup tev.mod
        s1 == HandleInsertedColliders(SysState(physics, rigidbodies), JoinInsertedColliders(cev.ins))
        s2 == HandleModifiedColliders(s1, JoinModifiedColliders(cev.mod))
        s3 == HandleRemovedColliders(s2, JoinRemovedColliders(cev.rem))
    IN  HandleModifiedTransformsCol(s3, JoinModifiedTransformsCol(modified_transforms))

\* ----------------------------------------------------- WorldStepPhysicsSystem

\* PhysicsState::step, as far as the sync layer can see it: the solver drops
\* the colliders attached to bodies removed since the last step, and every
\* non-static rigid body moves by its velocity times the timestep.
StepPhysics(ph) ==
    [ph EXCEPT
        !.colliders = [c \in {x \in DOMAIN ph.colliders :
                                ph.colliders[x].parent \in DOMAIN ph.bodies}
                       |-> ph.colliders[c]],
        !.bodies = [h \in DOMAIN ph.bodies |->
                      IF ph.bodies[h].kind = "RigidBody" /\ ph.bodies[h].status # "Static"
                      THEN [ph.bodies[h] EXCEPT
                              !.position = RatAdd(@, Rat(ph.bodies[h].velocity, StepHz))]
                      ELSE ph.bodies[h]]]

\* enum ContactEvent, as geometrical_world.contact_events() yields it after the
\* step: Started or Stopped, between two colliders the solver holds.  pair tells
\* whether the solver still has a contact pair for the two.
ContactEvents(ph) ==
    {[kind |-> k, handle1 |-> a, handle2 |-> b, pair |-> r] :
        k \in {"Started", "Stopped"}, a \in DOMAIN ph.colliders,
        b \in DOMAIN ph.colliders, r \in BOOLEAN}

\* The lists of contact events one step can report.
ContactLists(ph) ==
    UNION {[1..n -> {e \in ContactEvents(ph) :
                        e.handle1 < e.handle2 /\ (e.kind = "Stopped" => ~e.pair)}] :
           n \in 0..MaxContacts}

\* geometrical_world.contact_pair(&colliders, handle1, handle2, false): the two
\* handles with their colliders, or None (the empty set).
ContactPair(ph, event) ==
    IF event.pair /\ event.handle1 \in DOMAIN ph.colliders
                  /\ event.handle2 \in DOMAIN ph.colliders
    THEN {[handle_a |-> event.handle1, collider_a |-> ph.colliders[event.handle1],
           handle_b |-> event.handle2, collider_b |-> ph.colliders[event.handle2]]}
    ELSE {}

\* Faulty variant of CollisionEventOf: a Stopped contact is translated as well.
CollisionEventOf_StoppedToo(ph, event) ==
    {[entity_a |-> ph.colliders[event.handle1].user_data,
      collider_handle_a |-> event.handle1,
      entity_b |-> ph.colliders[event.handle2].user_data,
      collider_handle_b |-> event.handle2,
      ty |-> event.kind]}

\* Faulty variant of CollisionEventOf: the second entity is left out.
CollisionEventOf_OneEntity(ph, event) ==
    IF event.kind = "Started"
    THEN {[entity_a |-> c.collider_a.user_data, collider_handle_a |-> c.handle_a,
           entity_b |-> {}, collider_handle_b |-> c.handle_b,
           ty |-> "Started"] : c \in ContactPair(ph, event)}
    ELSE {}

\* The match on one contact event: Some(CollisionEvent) for a Started contact
\* whose pair resolves, with each collider's user data downcast to its Entity;
\* None (the empty set) for an unresolved pair and for Stopped.
CollisionEventOf(ph, event) ==
    IF event.kind = "Started"
    THEN {[entity_a |-> c.collider_a.user_data, collider_handle_a |-> c.handle_a,
           entity_b |-> c.collider_b.user_data, collider_handle_b |-> c.handle_b,
           ty |-> "Started"] : c \in ContactPair(ph, event)}
    ELSE {}

\* The for loop of WorldStep::run: every Some(ev) is written to the channel, in
\* the order of the contact events.
RECURSIVE PublishCollisions(_, _)
PublishCollisions(ph, events) ==
    IF events = <<>> THEN <<>>
    ELSE LET collision_event == CollisionEventOf(ph, Head(events))
             rest == PublishCollisions(ph, Tail(events))
         IN  IF collision_event = {} THEN rest
             ELSE <<CHOOSE ev \in collision_event : TRUE>> \o rest

\* ---------------------------------------------- RigidbodyReceivePhysicsSystem

\* Faulty variant of ReceiveBody: the snapshot is taken after the overwrite.
ReceiveBody_SnapshotAfter(st, id) ==
    LET rb == st.rigidbodies[id]
        tr == st.transforms[id]
    IN  IF st.panicked THEN st
        ELSE IF rb.handle = {} THEN [st EXCEPT !.panicked = TRUE]
        ELSE LET h == CHOOSE x \in rb.handle : TRUE IN
             IF h \notin DOMAIN physics.bodies THEN st
             ELSE IF physics.bodies[h].kind # "RigidBody" THEN st
             ELSE LET position == RatMul(physics.bodies[h].position,
                                         <<PIXELS_PER_WORLD_UNIT, 1>>)
                  IN  [st EXCEPT
                         !.transforms[id] =
                             [tr EXCEPT !.position = position, !.last_position = position],
                         !.rigidbodies[id] =
                             [rb EXCEPT !.velocity = physics.bodies[h].velocity,
                                        !.last_velocity = physics.bodies[h].velocity]]

\* Body of the loop of RigidbodyReceive::run: handle.unwrap() panics on None; a
\* handle that resolves to a rigid body is copied back after the snapshot.
ReceiveBody(st, id) ==
    LET rb == st.rigidbodies[id]
        tr == st.transforms[id]
    IN  IF st.panicked THEN st
        ELSE IF rb.handle = {} THEN [st EXCEPT !.panicked = TRUE]
        ELSE LET h == CHOOSE x \in rb.handle : TRUE IN
             IF h \notin DOMAIN physics.bodies THEN st
             ELSE IF physics.bodies[h].kind # "RigidBody" THEN st
             ELSE [st EXCEPT
                     !.transforms[id] =
                         [tr EXCEPT !.last_position = tr.position,
                                    !.position = RatMul(physics.bodies[h].position,
                                                        <<PIXELS_PER_WORLD_UNIT, 1>>)],
                     !.rigidbodies[id] =
                         [rb EXCEPT !.last_velocity = rb.velocity,
                                    !.velocity = physics.bodies[h].velocity]]

RECURSIVE ReceiveLoop(_, _)
ReceiveLoop(st, ids) ==
    IF ids = {} THEN st
    ELSE LET id == Min(ids) IN ReceiveLoop(ReceiveBody(st, id), ids \ {id})

\* The join (&mut rigidbodies, &mut transforms).
JoinReceive == {id \in Ids : rigidbodies[id].present /\ transforms[id].present}

RigidbodyReceiveRun ==
    ReceiveLoop([transforms |-> transforms, rigidbodies |-> rigidbodies, panicked |-> FALSE],
                JoinReceive)

\* ------------------------------------------------------------ the dispatcher

\* Faulty variant of physics_dispatcher: the Step system added before Collider-Send.
physics_dispatcher_StepEarly ==
    <<"RigidbodySend", "WorldStep", "ColliderSend", "RigidbodyReceive">>

\* GameState::new: the physics dispatcher's thread-local systems, which run in
\* the order they were added, one after the other on the dispatching thread.
physics_dispatcher == <<"RigidbodySend", "ColliderSend", "WorldStep", "RigidbodyReceive">>

\* Outbound sync on its own: the two Send systems.
outbound_sync == <<"RigidbodySend", "ColliderSend">>

Systems == {"RigidbodySend", "ColliderSend", "WorldStep", "RigidbodyReceive"}

NoBits == [inserted |-> {}, modified |-> {}, removed |-> {}, modified_transforms |-> {}]

\* GameState::new: the dispatcher is set up (the readers are registered), then
\* entities with a transform and a collider are built (paddle, bricks, walls),
\* then the physics state is inserted.  The slots of built hold one such entity
\* each; their events are still unread.
InitStore(built) ==
    /\ alive = [id \in Ids |-> id \in built]
    /\ gen = [id \in Ids |-> IF id \in built THEN 1 ELSE 0]
    /\ transforms = [id \in Ids |->
                       IF id \in built
                       THEN [present |-> TRUE, position |-> <<64, 1>>,
                             last_position |-> <<64, 1>>]
                       ELSE AbsentT]
    /\ rigidbodies = [id \in Ids |-> AbsentRb]
    /\ colliders = [id \in Ids |-> [present |-> id \in built]]
    /\ tEvRb = Emit(NoEvents, "Inserted", built)
    /\ tEvCol = Emit(NoEvents, "Inserted", built)
    /\ rbEv = NoEvents
    /\ colEv = Emit(NoEvents, "Inserted", built)
    /\ physics = NewPhysicsState
    /\ rbSendSys = NoBits
    /\ colSendSys = NoBits
    /\ dispatcher = physics_dispatcher
    /\ pc = 0
    /\ ran = [s \in Systems |-> 0]
    /\ stepCalls = 0
    /\ panicked = FALSE
    /\ synced = 0
    /\ last = "new"
    /\ hRemoved = [pending |-> {}, seen |-> {}]
    /\ nticks = 0
    /\ evlog = [written |-> [t \in Tables |->
                                [k \in Kinds |->
                                    IF t # "rigidbody" /\ k = "Inserted"
                                    THEN Cardinality(built) ELSE 0]],
                observed |-> [r \in Readers |-> NoCount]]
    /\ hWrite = {}
    /\ hPushed = [bodies |-> {}, colliders |-> {}]
    /\ hMissed = [id \in Ids |-> -1]
    /\ contact_events = <<>>
    /\ collision_events = <<>>
    /\ nops = 0

\* One entity built at startup.
InitPhysics == InitStore({0})

\* Two entities built at startup, as a wall and the paddle.
InitArena == InitStore(Ids)

\* Gameplay code touches the store between dispatches.
CanOp == pc = 0 /\ ~panicked /\ nops < MaxOps

OpDone == /\ nops' = nops + 1
          /\ last' = "op"
          /\ UNCHANGED <<physics, rbSendSys, colSendSys, dispatcher, pc, ran, stepCalls,
                         panicked, nticks, contact_events, collision_events, hPushed>>
          /\ UNCHANGED lvars

\* World::create_entity: a dead slot gets an entity of the next generation.
CreateEntity(id) ==
    /\ CanOp
    /\ ~alive[id]
    /\ alive' = [alive EXCEPT ![id] = TRUE]
    /\ gen' = [gen EXCEPT ![id] = @ + 1]
    /\ hWrite' = {}
    /\ UNCHANGED hMissed
    /\ OpDone
    /\ UNCHANGED <<hRemoved, transforms, rigidbodies, colliders, tEvRb, tEvCol, rbEv, colEv, synced, evlog>>

\* World::delete_entity: every component of the entity is removed from its
\* storage (one Removed event each), then the entity is killed.
DeleteEntity(id) ==
    /\ CanOp
    /\ alive[id]
    /\ alive' = [alive EXCEPT ![id] = FALSE]
    /\ transforms' = [transforms EXCEPT ![id] = AbsentT]
    /\ rigidbodies' = [rigidbodies EXCEPT ![id] = AbsentRb]
    /\ colliders' = [colliders EXCEPT ![id] = AbsentCol]
    /\ tEvRb' = IF transforms[id].present THEN Emit(tEvRb, "Removed", {id}) ELSE tEvRb
    /\ tEvCol' = IF transforms[id].present THEN Emit(tEvCol, "Removed", {id}) ELSE tEvCol
    /\ rbEv' = IF rigidbodies[id].present THEN Emit(rbEv, "Removed", {id}) ELSE rbEv
    /\ colEv' = IF colliders[id].present THEN Emit(colEv, "Removed", {id}) ELSE colEv
    /\ synced' = IF transforms[id].present \/ rigidbodies[id].present
                     \/ colliders[id].present
                  THEN 0 ELSE synced
    /\ hRemoved' = IF rigidbodies[id].present
                    THEN [hRemoved EXCEPT !.pending = @ \cup {<<Entity(id), rigidbodies[id].handle>>}]
                    ELSE hRemoved
    /\ evlog' = Wrote(Wrote(Wrote(evlog,
                        "transform", "Removed", IF transforms[id].present THEN 1 ELSE 0),
                        "rigidbody", "Removed", IF rigidbodies[id].present THEN 1 ELSE 0),
                        "collider", "Removed", IF colliders[id].present THEN 1 ELSE 0)
    /\ hWrite' = {}
    /\ hMissed' = [hMissed EXCEPT ![id] = -1]
    /\ OpDone
    /\ UNCHANGED gen

\* Storage::insert on a live entity: a new component is Inserted; an existing
\* one is swapped through a mutable access, which is a Modified event.
InsertKind(present) == IF present THEN "Modified" ELSE "Inserted"

InsertTransform(id, p) ==
    /\ CanOp
    /\ alive[id]
    /\ transforms' = [transforms EXCEPT
                        ![id] = [present |-> TRUE, position |-> p, last_position |-> p]]
    /\ tEvRb' = Emit(tEvRb, InsertKind(transforms[id].present), {id})
    /\ tEvCol' = Emit(tEvCol, InsertKind(transforms[id].present), {id})
    /\ evlog' = Wrote(evlog, "transform", InsertKind(transforms[id].present), 1)
    /\ synced' = 0
    /\ hWrite' = {}
    /\ UNCHANGED hMissed
    /\ OpDone
    /\ UNCHANGED <<hRemoved, alive, gen, rigidbodies, colliders, rbEv, colEv>>

\* A gameplay system writes transform.position through a mutable access.
ModifyTransform(id, p) ==
    /\ CanOp
    /\ alive[id]
    /\ transforms[id].present
    /\ transforms' = [transforms EXCEPT ![id].position = p]
    /\ tEvRb' = Emit(tEvRb, "Modified", {id})
    /\ tEvCol' = Emit(tEvCol, "Modified", {id})
    /\ evlog' = Wrote(evlog, "transform", "Modified", 1)
    /\ synced' = 0
    /\ hWrite' = {<<id, p>>}
    /\ UNCHANGED hMissed
    /\ OpDone
    /\ UNCHANGED <<hRemoved, alive, gen, rigidbodies, colliders, rbEv, colEv>>

RemoveTransform(id) ==
    /\ CanOp
    /\ alive[id]
    /\ transforms[id].present
    /\ transforms' = [transforms EXCEPT ![id] = AbsentT]
    /\ tEvRb' = Emit(tEvRb, "Removed", {id})
    /\ tEvCol' = Emit(tEvCol, "Removed", {id})
    /\ evlog' = Wrote(evlog, "transform", "Removed", 1)
    /\ synced' = 0
    /\ hWrite' = {}
    /\ UNCHANGED hMissed
    /\ OpDone
    /\ UNCHANGED <<hRemoved, alive, gen, rigidbodies, colliders, rbEv, colEv>>

InsertRigidbody(id, v, status) ==
    /\ CanOp
    /\ alive[id]
    /\ rigidbodies' = [rigidbodies EXCEPT ![id] = NewRigidbody(v, status)]
    /\ rbEv' = Emit(rbEv, InsertKind(rigidbodies[id].present), {id})
    /\ evlog' = Wrote(evlog, "rigidbody", InsertKind(rigidbodies[id].present), 1)
    /\ synced' = 0
    /\ hWrite' = {}
    /\ hMissed' = [hMissed EXCEPT ![id] = -1]
    /\ OpDone
    /\ UNCHANGED <<hRemoved, alive, gen, transforms, colliders, tEvRb, tEvCol, colEv>>

\* A gameplay system writes rigidbody.velocity through a mutable access.
ModifyRigidbody(id, v) ==
    /\ CanOp
    /\ alive[id]
    /\ rigidbodies[id].present
    /\ rigidbodies' = [rigidbodies EXCEPT ![id].velocity = v]
    /\ rbEv' = Emit(rbEv, "Modified", {id})
    /\ evlog' = Wrote(evlog, "rigidbody", "Modified", 1)
    /\ synced' = 0
    /\ hWrite' = {}
    /\ UNCHANGED hMissed
    /\ OpDone
    /\ UNCHANGED <<hRemoved, alive, gen, transforms, colliders, tEvRb, tEvCol, colEv>>

RemoveRigidbody(id) ==
    /\ CanOp
    /\ alive[id]
    /\ rigidbodies[id].present
    /\ rigidbodies' = [rigidbodies EXCEPT ![id] = AbsentRb]
    /\ rbEv' = Emit(rbEv, "Removed", {id})
    /\ evlog' = Wrote(evlog, "rigidbody", "Removed", 1)
    /\ hRemoved' = [hRemoved EXCEPT !.pending = @ \cup {<<Entity(id), rigidbodies[id].handle>>}]
    /\ synced' = 0
    /\ hWrite' = {}
    /\ hMissed' = [hMissed EXCEPT ![id] = -1]
    /\ OpDone
    /\ UNCHANGED <<alive, gen, transforms, colliders, tEvRb, tEvCol, colEv>>

InsertCollider(id) ==
    /\ CanOp
    /\ alive[id]
    /\ colliders' = [colliders EXCEPT ![id] = [present |-> TRUE]]
    /\ colEv' = Emit(colEv, InsertKind(colliders[id].present), {id})
    /\ evlog' = Wrote(evlog, "collider", InsertKind(colliders[id].present), 1)
    /\ synced' = 0
    /\ hWrite' = {}
    /\ UNCHANGED hMissed
    /\ OpDone
    /\ UNCHANGED <<hRemoved, alive, gen, transforms, rigidbodies, tEvRb, tEvCol, rbEv>>

\* A gameplay system touches the collider through a mutable access.
ModifyCollider(id) ==
    /\ CanOp
    /\ alive[id]
    /\ colliders[id].present
    /\ colEv' = Emit(colEv, "Modified", {id})
    /\ evlog' = Wrote(evlog, "collider", "Modified", 1)
    /\ synced' = 0
    /\ hWrite' = {}
    /\ UNCHANGED hMissed
    /\ OpDone
    /\ UNCHANGED <<hRemoved, alive, gen, transforms, rigidbodies, colliders, tEvRb, tEvCol, rbEv>>

RemoveCollider(id) ==
    /\ CanOp
    /\ alive[id]
    /\ colliders[id].present
    /\ colliders' = [colliders EXCEPT ![id] = AbsentCol]
    /\ colEv' = Emit(colEv, "Removed", {id})
    /\ evlog' = Wrote(evlog, "collider", "Removed", 1)
    /\ synced' = 0
    /\ hWrite' = {}
    /\ UNCHANGED hMissed
    /\ OpDone
    /\ UNCHANGED <<hRemoved, alive, gen, transforms, rigidbodies, tEvRb, tEvCol, rbEv>>

\* Dispatcher::dispatch: the systems of d run from the first on.
Dispatch(d) ==
    /\ pc = 0
    /\ ~panicked
    /\ nticks < MaxTicks
    /\ dispatcher' = d
    /\ pc' = 1
    /\ ran' = [s \in Systems |-> 0]
    /\ stepCalls' = 0
    /\ nticks' = nticks + 1
    /\ last' = "dispatch"
    /\ contact_events' = <<>>
    /\ collision_events' = <<>>
    /\ hWrite' = IF last = "op" THEN hWrite ELSE {}
    /\ hPushed' = [bodies |-> {}, colliders |-> {}]
    /\ UNCHANGED hMissed
    /\ UNCHANGED lvars
    /\ UNCHANGED <<hRemoved, alive, gen, transforms, rigidbodies, colliders, tEvRb, tEvCol, rbEv,
                   colEv, physics, rbSendSys, colSendSys, panicked, synced, evlog, nops>>

\* The dispatcher is about to run system s.
Running(s) == ~panicked /\ pc \in 1..Len(dispatcher) /\ dispatcher[pc] = s

\* System s returned (ok) or panicked; the dispatcher moves on or is done.
Advance(s, ok) ==
    /\ pc' = IF ~ok THEN pc ELSE IF pc = Len(dispatcher) THEN 0 ELSE pc + 1
    /\ ran' = IF ok THEN [ran EXCEPT ![s] = @ + 1] ELSE ran
    /\ panicked' = ~ok
    /\ last' = s
    /\ UNCHANGED <<dispatcher, nticks, nops>>
    /\ UNCHANGED lvars

RigidbodySend ==
    /\ Running("RigidbodySend")
    /\ LET st == RigidbodySendRun(tEvRb, rbEv) IN
        /\ rbSendSys' = [inserted |-> rbEv.ins, modified |-> rbEv.mod,
                         removed |-> rbEv.rem,
                         modified_transforms |-> tEvRb.ins \cup tEvRb.mod]
        /\ physics' = st.physics
        /\ rigidbodies' = st.rigidbodies
        /\ tEvRb' = ReadAll(tEvRb)
        /\ rbEv' = Emit(ReadAll(rbEv), "Modified", st.flagged)
        /\ evlog' = Wrote(Observed(Observed(evlog, "RigidbodySend.transform", tEvRb),
                                    "RigidbodySend.rigidbody", rbEv),
                           "rigidbody", "Modified", Cardinality(st.flagged))
        /\ Advance("RigidbodySend", ~st.panicked)
        /\ hPushed' = [hPushed EXCEPT !.bodies = st.pushed]
    /\ hRemoved' = [pending |-> {}, seen |-> hRemoved.pending]
    /\ hMissed' = [id \in Ids |->
                     IF id \in rbEv.ins /\ alive[id] /\ rigidbodies[id].present
                                        /\ ~transforms[id].present
                     THEN 0
                     ELSE IF hMissed[id] >= 0 /\ alive[id] /\ rigidbodies[id].present
                                              /\ transforms[id].present
                     THEN (IF hMissed[id] >= 2 THEN 2 ELSE hMissed[id] + 1)
                     ELSE hMissed[id]]
    /\ UNCHANGED <<alive, gen, transforms, colliders, tEvCol, colEv, colSendSys,
                   stepCalls, synced, contact_events, collision_events, hWrite>>

ColliderSend ==
    /\ Running("ColliderSend")
    /\ LET st == ColliderSendRun(tEvCol, colEv) IN
        /\ colSendSys' = [inserted |-> colEv.ins, modified |-> colEv.mod,
                          removed |-> colEv.rem,
                          modified_transforms |-> tEvCol.ins \cup tEvCol.mod]
        /\ physics' = st.physics
        /\ tEvCol' = ReadAll(tEvCol)
        /\ colEv' = ReadAll(colEv)
        /\ evlog' = Observed(Observed(evlog, "ColliderSend.transform", tEvCol),
                             "ColliderSend.collider", colEv)
        /\ synced' = IF st.panicked THEN 0 ELSE IF synced = 0 THEN 1 ELSE 2
        /\ Advance("ColliderSend", ~st.panicked)
        /\ hPushed' = [hPushed EXCEPT !.colliders = st.pushed]
    /\ UNCHANGED <<hRemoved, alive, gen, transforms, rigidbodies, colliders, tEvRb, rbEv,
                   rbSendSys, stepCalls, contact_events, collision_events, hWrite, hMissed>>

WorldStep ==
    /\ Running("WorldStep")
    /\ physics' = StepPhysics(physics)
    /\ \E events \in ContactLists(StepPhysics(physics)) :
          /\ contact_events' = events
          /\ collision_events' = PublishCollisions(StepPhysics(physics), events)
    /\ stepCalls' = stepCalls + 1
    /\ synced' = 0
    /\ Advance("WorldStep", TRUE)
    /\ UNCHANGED <<hRemoved, alive, gen, transforms, rigidbodies, colliders, tEvRb, tEvCol, rbEv,
                   colEv, rbSendSys, colSendSys, evlog, hWrite, hPushed, hMissed>>

\* The mutable join flags every joined rigidbody and transform Modified.
RigidbodyReceive ==
    /\ Running("RigidbodyReceive")
    /\ LET st == RigidbodyReceiveRun IN
        /\ transforms' = st.transforms
        /\ rigidbodies' = st.rigidbodies
        /\ rbEv' = Emit(rbEv, "Modified", JoinReceive)
        /\ tEvRb' = Emit(tEvRb, "Modified", JoinReceive)
        /\ tEvCol' = Emit(tEvCol, "Modified", JoinReceive)
        /\ evlog' = Wrote(Wrote(evlog, "rigidbody", "Modified", Cardinality(JoinReceive)),
                           "transform", "Modified", Cardinality(JoinReceive))
        /\ Advance("RigidbodyReceive", ~st.panicked)
    /\ synced' = 0
    /\ UNCHANGED <<hRemoved, alive, gen, colliders, colEv, physics, rbSendSys, colSendSys, stepCalls,
                   contact_events, collision_events, hWrite, hPushed, hMissed>>

StoreOp ==
    \E id \in Ids :
        \/ CreateEntity(id)
        \/ DeleteEntity(id)
        \/ \E p \in Positions : InsertTransform(id, p)
        \/ \E p \in Positions : ModifyTransform(id, p)
        \/ RemoveTransform(id)
        \/ \E v \in Velocities, status \in Statuses : InsertRigidbody(id, v, status)
        \/ \E v \in Velocities : ModifyRigidbody(id, v)
        \/ RemoveRigidbody(id)
        \/ InsertCollider(id)
        \/ ModifyCollider(id)
        \/ RemoveCollider(id)

\* ------------------------------------------------------------- window.rs: run

SIXTY_FPS_DT == Rat(1, 60)

target_dt == SIXTY_FPS_DT

\* Duration::seconds(1), in microseconds.
one_second == 1000000

\* snapped_delta_time_ms: the frame time in milliseconds, or target_dt when the
\* millisecond figure less target_dt is below 0.0002.
SnappedDeltaMs(ft) ==
    LET millis == Rat(ft, 1000)
    IN  IF RatLess(RatSub(RatAbs(millis), target_dt), Rat(2, 10000))
        THEN target_dt
        ELSE millis

\* snapped_delta_time_seconds = snapped_delta_time_ms / 1000.0
SnappedDeltaSeconds(ft) == RatMul(SnappedDeltaMs(ft), Rat(1, 1000))

\* Faulty variant of InitBlock: is_initialized is never set.
InitBlock_FlagNotSet(flag) == [called |-> IF flag THEN 0 ELSE 1, is_initialized |-> flag]

\* Faulty variant of InitBlock: the flag is set without calling init_callback.
InitBlock_Skipped(flag) == [called |-> 0, is_initialized |-> TRUE]

\* The if !is_initialized block: whether init_callback is called, and the flag
\* after it.
InitBlock(flag) ==
    IF ~flag THEN [called |-> 1, is_initialized |-> TRUE]
    ELSE [called |-> 0, is_initialized |-> flag]

\* Faulty variant of TickBody: the tick counter is left as it is.
TickBody_NoCount(st) ==
    [st EXCEPT !.accumulator = RatSub(@, target_dt),
               !.time = RatAdd(@, target_dt),
               !.fps_counter = @ + 1,
               !.calls = @ + 1]

\* One pass through the body of the while loop: one tick_callback.
TickBody(st) ==
    [st EXCEPT !.accumulator = RatSub(@, target_dt),
               !.time = RatAdd(@, target_dt),
               !.ticks = @ + 1,
               !.fps_counter = @ + 1,
               !.calls = @ + 1]

\* Faulty variant of TickLoop: an if in place of the while, at most one tick a frame.
TickLoop_Once(st) == IF RatGeq(st.accumulator, target_dt) THEN TickBody(st) ELSE st

\* while accumulator >= target_dt { ... }
RECURSIVE TickLoop(_)
TickLoop(st) == IF RatGeq(st.accumulator, target_dt) THEN TickLoop(TickBody(st)) ELSE st

\* The fps report: once a second of frame time has gathered.
FpsReport(timer, counter, shown) ==
    IF timer >= one_second
    THEN [fps_timer |-> 0, fps |-> counter, fps_counter |-> 0]
    ELSE [fps_timer |-> timer, fps |-> shown, fps_counter |-> counter]

\* Faulty variant of SetControlFlow: the closure's write reaches the loop even
\* after Exit.
SetControlFlow_Overwrite(cf, v) == v

\* *control_flow = v, as the loop sees it: winit hands the closure a dummy once
\* Exit has been set, so Exit stays.
SetControlFlow(cf, v) == IF cf = "Exit" THEN "Exit" ELSE v

InitLoop ==
    /\ fps_timer = 0
    /\ fps_counter = 0
    /\ fps = 0
    /\ time = <<0, 1>>
    /\ current_time = 0
    /\ accumulator = <<0, 1>>
    /\ frame_time = 0
    /\ ticks = 0
    /\ is_initialized = FALSE
    /\ control_flow = "Poll"
    /\ renderer = [size |-> <<800, 600>>, swapchain_rebuilt |-> FALSE]
    /\ redraw = FALSE
    /\ phase = "events"
    /\ lastEvent = "none"
    /\ prevEvent = "none"
    /\ delta = <<0, 1>>
    /\ initCalls = 0
    /\ tickCalls = 0
    /\ renderCalls = 0
    /\ renderArg = 0
    /\ tickBeforeInit = FALSE
    /\ frames = 0
    /\ winEvents = 0
    /\ redrawRequests = 0
    /\ closeIds = {}
    /\ closedAt = -1

\* WindowEvent::CloseRequested
CloseRequested(window_id) ==
    /\ phase = "events"
    /\ winEvents < MaxWinEvents
    /\ control_flow' = IF window_id = "own" THEN "Exit"
                       ELSE SetControlFlow(control_flow, "Poll")
    /\ lastEvent' = "CloseRequested"
    /\ prevEvent' = lastEvent
    /\ winEvents' = winEvents + 1
    /\ redrawRequests' = 0
    /\ closeIds' = closeIds \cup {window_id}
    /\ closedAt' = IF window_id = "own" /\ closedAt < 0 THEN frames ELSE closedAt
    /\ UNCHANGED <<fps_timer, fps_counter, fps, time, current_time, accumulator,
                   frame_time, ticks, is_initialized, renderer, redraw, phase, delta,
                   initCalls, tickCalls, renderCalls, renderArg, tickBeforeInit, frames>>
    /\ UNCHANGED pvars

\* Faulty variant of the Resized handler: it also empties the accumulator.
Resized_ResetsAccumulator(size) ==
    /\ phase = "events"
    /\ winEvents < MaxWinEvents
    /\ control_flow' = SetControlFlow(control_flow, "Poll")
    /\ renderer' = [renderer EXCEPT !.size = size]
    /\ redraw' = TRUE
    /\ lastEvent' = "Resized"
    /\ prevEvent' = lastEvent
    /\ winEvents' = winEvents + 1
    /\ redrawRequests' = 1
    /\ accumulator' = <<0, 1>>
    /\ UNCHANGED <<closeIds, closedAt>>
    /\ UNCHANGED <<fps_timer, fps_counter, fps, time, current_time,
                   frame_time, ticks, is_initialized, phase, delta, initCalls,
                   tickCalls, renderCalls, renderArg, tickBeforeInit, frames>>
    /\ UNCHANGED pvars

\* WindowEvent::Resized
Resized(size) ==
    /\ phase = "events"
    /\ winEvents < MaxWinEvents
    /\ control_flow' = SetControlFlow(control_flow, "Poll")
    /\ renderer' = [renderer EXCEPT !.size = size]
    /\ redraw' = TRUE
    /\ lastEvent' = "Resized"
    /\ prevEvent' = lastEvent
    /\ winEvents' = winEvents + 1
    /\ redrawRequests' = 1
    /\ UNCHANGED <<closeIds, closedAt>>
    /\ UNCHANGED <<fps_timer, fps_counter, fps, time, current_time, accumulator,
                   frame_time, ticks, is_initialized, phase, delta, initCalls,
                   tickCalls, renderCalls, renderArg, tickBeforeInit, frames>>
    /\ UNCHANGED pvars

\* Event::MainEventsCleared, ft microseconds after the previous one.
MainEventsCleared(ft) ==
    /\ phase = "events"
    /\ frames < MaxFrames
    /\ LET new_time == current_time + ft
           measured == new_time - current_time
           init == InitBlock(is_initialized)
           snapped_delta_time_seconds == SnappedDeltaSeconds(measured)
           st == TickLoop([accumulator |-> RatAdd(accumulator, snapped_delta_time_seconds),
                           time |-> time, ticks |-> ticks,
                           fps_counter |-> fps_counter, calls |-> 0])
           report == FpsReport(fps_timer + measured, st.fps_counter, fps)
       IN  /\ frame_time' = measured
           /\ current_time' = new_time
           /\ is_initialized' = init.is_initialized
           /\ initCalls' = initCalls + init.called
           /\ renderer' = IF init.called = 1
                          THEN [renderer EXCEPT !.swapchain_rebuilt = TRUE]
                          ELSE renderer
           /\ delta' = snapped_delta_time_seconds
           /\ accumulator' = st.accumulator
           /\ time' = st.time
           /\ ticks' = st.ticks
           /\ tickCalls' = tickCalls + st.calls
           /\ tickBeforeInit' = IF st.calls > 0 /\ ~init.is_initialized
                                THEN TRUE ELSE tickBeforeInit
           /\ fps_timer' = report.fps_timer
           /\ fps' = report.fps
           /\ fps_counter' = report.fps_counter
    /\ control_flow' = SetControlFlow(control_flow, "Poll")
    /\ redraw' = TRUE
    /\ phase' = "redraw"
    /\ lastEvent' = "MainEventsCleared"
    /\ prevEvent' = lastEvent
    /\ frames' = frames + 1
    /\ redrawRequests' = 1
    /\ UNCHANGED <<renderCalls, renderArg, winEvents, closeIds, closedAt>>
    /\ UNCHANGED pvars

\* Event::RedrawRequested, which winit delivers after MainEventsCleared; the
\* iteration ends with it, and the loop with the iteration once Exit is set.
RedrawRequested ==
    /\ phase = "redraw"
    /\ redraw
    /\ renderCalls' = renderCalls + 1
    /\ renderArg' = ticks
    /\ redraw' = FALSE
    /\ control_flow' = SetControlFlow(control_flow, "Poll")
    /\ phase' = IF control_flow = "Exit" THEN "exited" ELSE "events"
    /\ lastEvent' = "RedrawRequested"
    /\ prevEvent' = lastEvent
    /\ redrawRequests' = 0
    /\ UNCHANGED <<closeIds, closedAt>>
    /\ UNCHANGED <<fps_timer, fps_counter, fps, time, current_time, accumulator,
                   frame_time, ticks, is_initialized, renderer, delta, initCalls,
                   tickCalls, tickBeforeInit, frames, winEvents>>
    /\ UNCHANGED pvars

\* winit may also end the loop as soon as a callback has set Exit.
LoopDestroyed ==
    /\ control_flow = "Exit"
    /\ phase # "exited"
    /\ phase' = "exited"
    /\ lastEvent' = "LoopDestroyed"
    /\ prevEvent' = lastEvent
    /\ UNCHANGED <<redrawRequests, closeIds, closedAt>>
    /\ UNCHANGED <<fps_timer, fps_counter, fps, time, current_time, accumulator,
                   frame_time, ticks, is_initialized, control_flow, renderer, redraw,
                   delta, initCalls, tickCalls, renderCalls, renderArg, tickBeforeInit,
                   frames, winEvents>>
    /\ UNCHANGED pvars

LoopNext ==
    \/ \E w \in WindowIds : CloseRequested(w)
    \/ \E size \in Sizes : Resized(size)
    \/ \E ft \in FrameTimes : MainEventsCleared(ft)
    \/ RedrawRequested
    \/ LoopDestroyed

\* ------------------------------------------------------------ specifications

Init == InitPhysics /\ InitLoop

Next ==
    \/ StoreOp
    \/ Dispatch(physics_dispatcher)
    \/ RigidbodySend
    \/ ColliderSend
    \/ WorldStep
    \/ RigidbodyReceive

Spec == Init /\ [][Next]_vars

SyncNext ==
    \/ StoreOp
    \/ \E d \in {physics_dispatcher, outbound_sync} : Dispatch(d)
    \/ RigidbodySend
    \/ ColliderSend
    \/ WorldStep
    \/ RigidbodyReceive

SyncSpec == Init /\ [][SyncNext]_vars

LoopSpec == Init /\ [][LoopNext]_vars

\* The event loop with winit's own progress: once a callback has set Exit the
\* loop ends, at the latest when the iteration under way is over.
LoopLiveSpec ==
    Init /\ [][LoopNext]_vars /\ WF_vars(LoopDestroyed) /\ WF_vars(RedrawRequested)

\* The pipeline over two entities built at startup, with gameplay code that
\* gives entities a rigidbody.
StepInit == InitArena /\ InitLoop

StepNext ==
    \/ \E id \in Ids, v \in Velocities, status \in Statuses : InsertRigidbody(id, v, status)
    \/ Dispatch(physics_dispatcher)
    \/ RigidbodySend
    \/ ColliderSend
    \/ WorldStep
    \/ RigidbodyReceive

StepSpec == StepInit /\ [][StepNext]_vars

\* =================================================================== claims

BodyOf(id) == physics.ent_body_handles[Entity(id)]

Injective(m) == \A a, b \in DOMAIN m : m[a] = m[b] => a = b

\* The state right after a run of system s that returned.
JustRan(s) == last = s /\ ~panicked

\* The rigidbodies newly inserted in the tick of the last RigidbodySend run and
\* present at it: an Inserted event was read and the component is there.
NewlyInserted == {id \in rbSendSys.inserted : alive[id] /\ rigidbodies[id].present}

\* C1: at the end of the RigidbodySend run of a tick, every entity whose
\* rigidbody was newly inserted in that tick has a body-map entry naming a body
\* of the solver, and the component's handle is Some of that handle.  Stated
\* here for the entities that hold a Transform, from which the code can build
\* a body; the claim as written also covers those that hold none.
C1_InsertedBodyExists ==
    JustRan("RigidbodySend") =>
        \A id \in NewlyInserted :
            transforms[id].present =>
                /\ Entity(id) \in DOMAIN physics.ent_body_handles
                /\ BodyOf(id) \in DOMAIN physics.bodies
                /\ rigidbodies[id].handle = {BodyOf(id)}

\* C2: after the RigidbodySend run of a tick, no entity whose rigidbody was
\* removed in that tick (from a live entity, or with the entity's deletion) has a
\* body-map entry, and the body created for it is gone from the solver.
C2_RemovedBodyGone ==
    JustRan("RigidbodySend") =>
        \A r \in hRemoved.seen :
            /\ r[1] \notin DOMAIN physics.ent_body_handles
            /\ r[2] \cap DOMAIN physics.bodies = {}

\* C3: at every tick boundary, a rigidbody whose handle is Some(h) has h in the
\* solver body set and equal to its entity's body-map entry.
C3_HandleResolves ==
    (pc = 0 /\ ~panicked) =>
        \A id \in Ids :
            (rigidbodies[id].present /\ rigidbodies[id].handle # {}) =>
                /\ rigidbodies[id].handle \subseteq DOMAIN physics.bodies
                /\ Entity(id) \in DOMAIN physics.ent_body_handles
                /\ rigidbodies[id].handle = {BodyOf(id)}

\* C4: after every run of the two Send systems, the solver bodies are exactly
\* the ground body and the bodies the body map names, the solver colliders are
\* exactly the colliders the collider map names, and both maps are injective.
C4_MapsMatchSolver ==
    JustRan("ColliderSend") =>
        /\ DOMAIN physics.bodies =
              {physics.ground_body_handle} \cup Range(physics.ent_body_handles)
        /\ DOMAIN physics.colliders = Range(physics.ent_collider_handles)
        /\ Injective(physics.ent_body_handles)
        /\ Injective(physics.ent_collider_handles)

\* C5: within a dispatch of the physics pipeline no system runs twice, step()
\* is called only by the one run of the Step system, Collider-Send runs only
\* after Rigidbody-Send, Step only after both Send systems, Receive only after
\* Step, and a dispatch that is over has run each of the four exactly once.
C5_PipelineOrder ==
    /\ \A s \in Systems : ran[s] <= 1
    /\ stepCalls = ran["WorldStep"]
    /\ ran["ColliderSend"] = 1 => ran["RigidbodySend"] = 1
    /\ ran["WorldStep"] = 1 => (ran["RigidbodySend"] = 1 /\ ran["ColliderSend"] = 1)
    /\ ran["RigidbodyReceive"] = 1 => ran["WorldStep"] = 1
    /\ (pc = 0 /\ nticks > 0) => (\A s \in Systems : ran[s] = 1) /\ stepCalls = 1

\* C5's case: a second dispatch has completed.
C5_Witness == pc = 0 /\ nticks = 2 /\ last = "RigidbodyReceive" /\ ~panicked

\* C10: a Send system run as part of an outbound sync that follows a completed
\* outbound sync, with no component event produced in between, leaves both
\* handle maps and the solver's body and collider sets as they were.
C10_SecondSyncIdempotent ==
    [][(synced >= 1 /\ (Running("RigidbodySend") \/ Running("ColliderSend"))) =>
          /\ physics'.ent_body_handles = physics.ent_body_handles
          /\ physics'.ent_collider_handles = physics.ent_collider_handles
          /\ DOMAIN physics'.bodies = DOMAIN physics.bodies
          /\ DOMAIN physics'.colliders = DOMAIN physics.colliders]_vars

\* C10's case: a second outbound sync in a row has completed with both maps
\* non-empty.
C10_Witness ==
    /\ synced = 2
    /\ JustRan("ColliderSend")
    /\ DOMAIN physics.ent_body_handles # {}
    /\ DOMAIN physics.ent_collider_handles # {}

\* C6: a MainEventsCleared iteration that starts with accumulator A and adds
\* the delta d calls tick_callback floor((A + d) / target_dt) times, advances
\* the tick counter by as much, and ends with the accumulator at A + d less
\* that many tick durations, at least 0 and below target_dt.
C6_TicksPerIteration ==
    [][frames' = frames + 1 =>
          LET total == RatAdd(accumulator, delta')
              n == RatFloorDiv(total, target_dt)
          IN  /\ tickCalls' = tickCalls + n
              /\ ticks' = ticks + n
              /\ accumulator' = RatSub(total, RatMul(<<n, 1>>, target_dt))
              /\ RatGeq(accumulator', <<0, 1>>)
              /\ RatLess(accumulator', target_dt)]_vars

\* C6's case: an iteration has just run, several ticks have run in all, and
\* part of a tick is left in the accumulator.
C6_Witness ==
    /\ lastEvent = "MainEventsCleared"
    /\ frames >= 2
    /\ ticks >= 2
    /\ accumulator # <<0, 1>>

\* C7: the delta added to the accumulator is the nominal tick duration, 1/60 s,
\* when the measured frame time is within 0.2 ms of 1/60 s, and the measured
\* frame time otherwise.
C7_SnapToNominal ==
    frames > 0 =>
        LET measured == Rat(frame_time, 1000000)
            near == RatLess(RatAbs(RatSub(measured, SIXTY_FPS_DT)), Rat(2, 10000))
        IN  delta = IF near THEN SIXTY_FPS_DT ELSE measured

\* C9: init_callback has been called once from the first MainEventsCleared on
\* and not before, never a second time, and no tick_callback ran before it.
C9_InitOnce ==
    /\ initCalls = IF frames >= 1 THEN 1 ELSE 0
    /\ is_initialized = (initCalls = 1)
    /\ ~tickBeforeInit
    /\ tickCalls > 0 => initCalls = 1

\* C9's case: a later iteration has run, with ticks, a window event and a
\* redraw behind it.
C9_Witness ==
    /\ frames >= 2
    /\ tickCalls >= 1
    /\ winEvents >= 1
    /\ renderCalls >= 1
    /\ initCalls = 1

\* The events a reader has yet to read, and the table it reads.
Unread(r) ==
    CASE r = "RigidbodySend.transform" -> tEvRb
      [] r = "ColliderSend.transform" -> tEvCol
      [] r = "RigidbodySend.rigidbody" -> rbEv
      [] r = "ColliderSend.collider" -> colEv

TableOf(r) ==
    CASE r = "RigidbodySend.transform" -> "transform"
      [] r = "ColliderSend.transform" -> "transform"
      [] r = "RigidbodySend.rigidbody" -> "rigidbody"
      [] r = "ColliderSend.collider" -> "collider"

\* C11: each reader is its own cursor.  Of the events of each kind written to a
\* table since setup (those of the entities built before the first tick among
\* them), every reader of the table has been handed each one once or has it
\* still to read: none is lost to a reader, by its own reads or by the other
\* system's, and none is handed to it twice.
C11_EachEventOnce ==
    \A r \in Readers : \A k \in Kinds :
        evlog.observed[r][k] + Unread(r).n[k] = evlog.written[TableOf(r)][k]

\* C11's case: in a second tick both Send systems have read transform events
\* again, each has read events of its own table, and events written since are
\* waiting for both.
C11_Witness ==
    /\ nticks >= 2
    /\ JustRan("ColliderSend")
    /\ evlog.observed["RigidbodySend.transform"]["Modified"] >= 2
    /\ evlog.observed["ColliderSend.transform"]["Modified"] >= 2
    /\ evlog.observed["RigidbodySend.transform"]["Inserted"] >= 1
    /\ evlog.observed["ColliderSend.transform"]["Inserted"] >= 1
    /\ evlog.observed["RigidbodySend.rigidbody"]["Inserted"] >= 1
    /\ evlog.observed["ColliderSend.collider"]["Inserted"] >= 1

\* A Started contact whose contact pair resolves in the solver as the step
\* left it.
Resolved(event) == event.kind = "Started" /\ ContactPair(physics, event) # {}

\* The live entities the collider map gives the collider handle h.
Owners(h) ==
    {id \in Ids : /\ alive[id]
                  /\ Entity(id) \in DOMAIN physics.ent_collider_handles
                  /\ physics.ent_collider_handles[Entity(id)] = h}

\* C12: in a run of the Step system a Stopped contact and a Started contact
\* whose pair does not resolve publish nothing and do not stop the run: the
\* CollisionEvents written in the tick are, in order, those of the Started
\* contacts that resolved, one each, all of type Started.
C12_OnlyResolvedStartsPublished ==
    last = "WorldStep" =>
        LET resolved == SelectSeq(contact_events, Resolved) IN
        /\ ~panicked
        /\ Len(collision_events) = Len(resolved)
        /\ \A i \in DOMAIN collision_events :
              /\ collision_events[i].ty = "Started"
              /\ collision_events[i].collider_handle_a = resolved[i].handle1
              /\ collision_events[i].collider_handle_b = resolved[i].handle2

\* C12's case: the step reported a Started contact that did not resolve, then a
\* Stopped one, then a Started one that resolved and was published.
C12_Witness ==
    /\ JustRan("WorldStep")
    /\ Len(contact_events) = 3
    /\ contact_events[1].kind = "Started" /\ ~Resolved(contact_events[1])
    /\ contact_events[2].kind = "Stopped"
    /\ Resolved(contact_events[3])
    /\ Len(collision_events) = 1

\* The collider h belongs to an entity with a dynamic rigidbody whose body the
\* solver holds.
DynamicOwner(h) ==
    \E id \in Owners(h) :
        /\ rigidbodies[id].present
        /\ rigidbodies[id].status = "Dynamic"
        /\ Entity(id) \in DOMAIN physics.ent_body_handles
        /\ BodyOf(id) \in DOMAIN physics.bodies

\* The resolved Started contacts of the tick between colliders a and b, and the
\* CollisionEvents of the tick that carry the two handles.
StartsOf(a, b) ==
    {i \in DOMAIN contact_events :
        Resolved(contact_events[i])
        /\ {contact_events[i].handle1, contact_events[i].handle2} = {a, b}}

EventsOf(a, b) ==
    {i \in DOMAIN collision_events :
        {collision_events[i].collider_handle_a, collision_events[i].collider_handle_b} = {a, b}}

\* C13: for two colliders of two entities with dynamic rigidbodies, the Step
\* system publishes one CollisionEvent per Started contact the solver reports
\* (and resolves) for the pair in the tick, so exactly one for one contact; each
\* is of type Started and has entity_a and entity_b present, the entities that
\* own the two colliders.
C13_OneStartedEventPerPair ==
    JustRan("WorldStep") =>
        \A a, b \in DOMAIN physics.colliders :
            (a < b /\ DynamicOwner(a) /\ DynamicOwner(b)) =>
                /\ Cardinality(EventsOf(a, b)) = Cardinality(StartsOf(a, b))
                /\ \A i \in EventsOf(a, b) :
                      LET ev == collision_events[i] IN
                      /\ ev.ty = "Started"
                      /\ ev.entity_a = {Entity(id) : id \in Owners(ev.collider_handle_a)}
                      /\ ev.entity_b = {Entity(id) : id \in Owners(ev.collider_handle_b)}
                      /\ Cardinality(ev.entity_a) = 1
                      /\ Cardinality(ev.entity_b) = 1
                      /\ ev.entity_a # ev.entity_b

\* C13's case: the step reported one Started contact between the colliders of
\* two dynamic entities, and one event was published.
C13_Witness ==
    /\ JustRan("WorldStep")
    /\ Len(collision_events) = 1
    /\ \E a, b \in DOMAIN physics.colliders :
          /\ a < b /\ DynamicOwner(a) /\ DynamicOwner(b)
          /\ Cardinality(StartsOf(a, b)) = 1

\* The collider h is attached to the ground body and belongs to an entity
\* without a rigidbody, as the walls and the paddle built at startup.
GroundAttached(h) ==
    /\ h \in DOMAIN physics.colliders
    /\ physics.colliders[h].parent = physics.ground_body_handle
    /\ Owners(h) # {}
    /\ \A id \in Owners(h) : ~rigidbodies[id].present

\* C14: a CollisionEvent for a Started contact between the collider of an
\* entity without a rigidbody and a ground-attached boundary collider has
\* exactly one of entity_a and entity_b present.
C14_OneEntityPresent ==
    JustRan("WorldStep") =>
        \A i \in DOMAIN collision_events :
            LET ev == collision_events[i] IN
            (GroundAttached(ev.collider_handle_a) /\ GroundAttached(ev.collider_handle_b)) =>
                (ev.entity_a = {}) # (ev.entity_b = {})

\* The rigidbody of slot id has a handle that names a rigid body of the solver.
Resolves(id) ==
    /\ rigidbodies[id].handle # {}
    /\ \A h \in rigidbodies[id].handle :
          h \in DOMAIN physics.bodies /\ physics.bodies[h].kind = "RigidBody"

\* C15: a run of Rigidbody-Receive that returns leaves, for every entity with a
\* Transform and a Rigidbody whose handle resolves to a solver body,
\* last_position at the position of before the run and last_velocity at the
\* velocity of before the run, position at the body's translation times
\* PIXELS_PER_WORLD_UNIT and velocity at the body's velocity.
C15_SnapshotBeforeOverwrite ==
    [][(Running("RigidbodyReceive") /\ ~panicked') =>
          \A id \in Ids :
              (transforms[id].present /\ rigidbodies[id].present /\ Resolves(id)) =>
                  LET body == physics.bodies[CHOOSE h \in rigidbodies[id].handle : TRUE] IN
                  /\ transforms'[id].last_position = transforms[id].position
                  /\ rigidbodies'[id].last_velocity = rigidbodies[id].velocity
                  /\ transforms'[id].position =
                        RatMul(body.position, <<PIXELS_PER_WORLD_UNIT, 1>>)
                  /\ rigidbodies'[id].velocity = body.velocity]_vars

\* C15's case: Receive has just copied back a body that moved in the step, so
\* the position and its snapshot differ.
C15_Witness ==
    /\ JustRan("RigidbodyReceive")
    /\ \E id \in Ids :
          /\ transforms[id].present /\ rigidbodies[id].present /\ Resolves(id)
          /\ transforms[id].position # transforms[id].last_position

\* C16: a run of Rigidbody-Receive does not fail on an entity with a Transform
\* and a Rigidbody whose handle is None or names no body of the solver: the run
\* returns and leaves that entity's position, last_position, velocity and
\* last_velocity as they were.
C16_ReceiveSkipsUnresolved ==
    [][Running("RigidbodyReceive") =>
          /\ ~panicked'
          /\ \A id \in Ids :
                (transforms[id].present /\ rigidbodies[id].present /\ ~Resolves(id)) =>
                    /\ transforms'[id] = transforms[id]
                    /\ rigidbodies'[id] = rigidbodies[id]]_vars

\* C17: a run of a Send system never aborts on a per-entity mapping fault, a
\* map entry whose solver object cannot be fetched included, and an entity
\* that has events other than Inserted and no entry in the system's handle
\* map is given none by the run.
C17_SendFaultsContained ==
    [][/\ Running("RigidbodySend") =>
            /\ ~panicked'
            /\ \A id \in (rbEv.mod \cup rbEv.rem \cup tEvRb.ins \cup tEvRb.mod) \ rbEv.ins :
                  (alive[id] /\ Entity(id) \notin DOMAIN physics.ent_body_handles) =>
                      /\ Entity(id) \notin DOMAIN physics'.ent_body_handles
                      /\ DOMAIN physics'.colliders = DOMAIN physics.colliders
       /\ Running("ColliderSend") =>
            /\ ~panicked'
            /\ \A id \in (colEv.mod \cup colEv.rem \cup tEvCol.ins \cup tEvCol.mod) \ colEv.ins :
                  (alive[id] /\ Entity(id) \notin DOMAIN physics.ent_collider_handles) =>
                      /\ Entity(id) \notin DOMAIN physics'.ent_collider_handles
                      /\ DOMAIN physics'.bodies = DOMAIN physics.bodies]_vars

\* C18: at every tick boundary the solver collider of an entity is attached to
\* the entity's own solver body if the entity has a rigidbody, and to the
\* ground body if it has none.
C18_ColliderParent ==
    (pc = 0 /\ JustRan("RigidbodyReceive")) =>
        \A id \in Ids :
            (/\ alive[id] /\ colliders[id].present
             /\ Entity(id) \in DOMAIN physics.ent_collider_handles
             /\ physics.ent_collider_handles[Entity(id)] \in DOMAIN physics.colliders) =>
                LET parent == physics.colliders[physics.ent_collider_handles[Entity(id)]].parent
                IN  IF rigidbodies[id].present
                    THEN /\ Entity(id) \in DOMAIN physics.ent_body_handles
                         /\ parent = BodyOf(id)
                    ELSE parent = physics.ground_body_handle

\* C19: the MainEventsCleared handler requests a redraw once, whatever the
\* number of ticks it ran, and every call of the render callback gets the tick
\* counter's current value, which is the number of tick_callback calls made so
\* far and is not below what the render call before it got.
C19_RedrawOncePerIteration ==
    [][/\ frames' = frames + 1 => (redrawRequests' = 1 /\ redraw')
       /\ renderCalls' = renderCalls + 1 =>
            /\ renderArg' = ticks
            /\ ticks = tickCalls
            /\ renderArg' >= renderArg]_vars

\* C19's case: a second render call, made after an iteration that added less
\* than one tick of time, gets the count of the ticks run so far.
C19_Witness ==
    /\ lastEvent = "RedrawRequested"
    /\ renderCalls >= 2
    /\ renderArg >= 2
    /\ renderArg = tickCalls
    /\ RatLess(delta, target_dt)

\* C20: the loop's control flow is Exit exactly from the handling of a
\* CloseRequested for its own window on, whatever is handled after it and
\* whatever other window was closed; at most the iteration under way still runs
\* its MainEventsCleared, no later one does, and the loop ends.
C20_CloseExits ==
    /\ [](/\ control_flow = "Exit" <=> "own" \in closeIds
          /\ closedAt >= 0 <=> "own" \in closeIds
          /\ closedAt >= 0 => frames <= closedAt + 1
          /\ phase = "exited" => control_flow = "Exit")
    /\ (control_flow = "Exit") ~> (phase = "exited")

\* C20's case: another window was closed and the loop went on; its own window
\* was closed, the iteration under way ran to its end and the loop ended.
C20_Witness ==
    /\ phase = "exited"
    /\ closeIds = {"own", "other"}
    /\ closedAt >= 0
    /\ frames = closedAt + 1
    /\ lastEvent = "RedrawRequested"

\* The Transform write <<id, p>> was followed by one full dispatch and nothing
\* else, and the entity's rigidbody is kinematic with a body in the solver.
RoundTripped(w) ==
    /\ pc = 0 /\ JustRan("RigidbodyReceive")
    /\ w \in hWrite
    /\ alive[w[1]] /\ transforms[w[1]].present /\ rigidbodies[w[1]].present
    /\ rigidbodies[w[1]].status = "Kinematic"
    /\ Resolves(w[1])

\* C21, as stated: for a kinematic body, a Transform position p written and
\* followed by one full pipeline dispatch with no other mutation comes back as
\* position p and last_position p.
C21_RoundTrip ==
    \A w \in hWrite :
        RoundTripped(w) =>
            /\ transforms[w[1]].position = w[2]
            /\ transforms[w[1]].last_position = w[2]

\* C21, amended: the same for a kinematic body at rest (velocity zero); a
\* kinematic body with a velocity is moved by the step.
C21_RoundTripAtRest ==
    \A w \in hWrite :
        (RoundTripped(w) /\ rigidbodies[w[1]].velocity = 0) =>
            /\ transforms[w[1]].position = w[2]
            /\ transforms[w[1]].last_position = w[2]

\* C21's case: the position 96 was written over 64 for a kinematic body at
\* rest and a full dispatch has run.
C21_Witness ==
    \E w \in hWrite :
        /\ RoundTripped(w)
        /\ rigidbodies[w[1]].velocity = 0
        /\ w[2] = <<96, 1>>
        /\ nticks >= 2

\* The colliders Collider-Send created in its last run and left in place: an
\* Inserted event was read, the entity held a Transform and the Collider, and
\* the collider map names a collider of the solver for it.
CollidersCreated ==
    {id \in colSendSys.inserted :
        /\ alive[id] /\ transforms[id].present /\ colliders[id].present
        /\ Entity(id) \in DOMAIN physics.ent_collider_handles
        /\ physics.ent_collider_handles[Entity(id)] \in DOMAIN physics.colliders}

\* C22: after the Send systems of a tick, a collider created in the tick for an
\* entity with a Transform whose Rigidbody was inserted in the same tick is
\* attached to the body Rigidbody-Send created for the entity, with zero local
\* translation; a collider created for an entity without a body mapping is
\* attached to the ground body, translated by the Transform position times
\* WORLD_UNIT_RATIO; and a body created in the tick is at the Transform
\* position times WORLD_UNIT_RATIO.
C22_SameTickAttachment ==
    JustRan("ColliderSend") =>
        /\ \A id \in CollidersCreated :
              LET ent == Entity(id)
                  col == physics.colliders[physics.ent_collider_handles[ent]]
              IN  /\ id \in NewlyInserted =>
                        /\ ent \in DOMAIN physics.ent_body_handles
                        /\ col.parent = BodyOf(id)
                        /\ col.position = <<0, 1>>
                  /\ ent \notin DOMAIN physics.ent_body_handles =>
                        /\ col.parent = physics.ground_body_handle
                        /\ col.position = RatMul(transforms[id].position, WORLD_UNIT_RATIO)
        /\ \A id \in NewlyInserted :
              (transforms[id].present /\ Entity(id) \in DOMAIN physics.ent_body_handles) =>
                  /\ BodyOf(id) \in DOMAIN physics.bodies
                  /\ physics.bodies[BodyOf(id)].position =
                        RatMul(transforms[id].position, WORLD_UNIT_RATIO)

\* C23: in a tick, Rigidbody-Send calls set_position only on the bodies of
\* entities with a Rigidbody whose Transform changed and whose Rigidbody was
\* not inserted in the tick, and Collider-Send only on the colliders of
\* entities with a Collider whose Transform changed, whose Collider was not
\* inserted in the tick and which hold no Rigidbody.
C23_PushesSkipFreshInserts ==
    JustRan("ColliderSend") =>
        /\ \A id \in hPushed.bodies :
              /\ id \in rbSendSys.modified_transforms
              /\ rigidbodies[id].present
              /\ id \notin rbSendSys.inserted
        /\ \A id \in hPushed.colliders :
              /\ id \in colSendSys.modified_transforms
              /\ colliders[id].present
              /\ id \notin colSendSys.inserted
              /\ ~rigidbodies[id].present

\* C24: a run of Rigidbody-Send leaves, for every live entity whose Rigidbody
\* had a Modified event and whose body mapping exists at the end of the run,
\* the mapped body's velocity at the component's velocity; the Modified events
\* change no entry of the body handle map (the map is the one the run would
\* leave without them), and the Modified events of Collider change nothing in
\* the physics state.
C24_ModifiedPushesVelocity ==
    [][/\ (Running("RigidbodySend") /\ ~panicked') =>
            /\ \A id \in rbEv.mod :
                  (alive[id] /\ rigidbodies'[id].present
                    /\ Entity(id) \in DOMAIN physics'.ent_body_handles) =>
                      LET h == physics'.ent_body_handles[Entity(id)] IN
                      /\ h \in DOMAIN physics'.bodies
                      /\ physics'.bodies[h].velocity = rigidbodies'[id].velocity
            /\ physics'.ent_body_handles =
                  RigidbodySendRun(tEvRb, [rbEv EXCEPT !.mod = {}]).physics.ent_body_handles
       /\ (Running("ColliderSend") /\ ~panicked') =>
            physics' = ColliderSendRun(tEvCol, [colEv EXCEPT !.mod = {}]).physics]_vars

\* C24's case: Rigidbody-Send has read a Modified event of a rigidbody that was
\* not inserted in the tick and whose velocity gameplay changed since the
\* Receive of the tick before, and the mapped body now has the component's velocity.
C24_Witness ==
    /\ JustRan("RigidbodySend")
    /\ \E id \in rbSendSys.modified \ (rbSendSys.inserted \cup rbSendSys.removed) :
          /\ alive[id] /\ rigidbodies[id].present
          /\ nticks >= 2
          /\ rigidbodies[id].velocity # rigidbodies[id].last_velocity
          /\ Entity(id) \in DOMAIN physics.ent_body_handles
          /\ physics.bodies[physics.ent_body_handles[Entity(id)]].velocity
                = rigidbodies[id].velocity

\* C25: a Rigidbody insert that could not be applied because the entity had no
\* Transform is applied by a later outbound sync: once the Transform is there
\* and the component still is, by the second Rigidbody-Send run that sees both
\* the entity has a handle-map entry, a solver body and a handle in the
\* component.
C25_MissedInsertReconciled ==
    JustRan("RigidbodySend") =>
        \A id \in Ids :
            (hMissed[id] >= 2 /\ alive[id] /\ transforms[id].present
                              /\ rigidbodies[id].present) =>
                /\ Entity(id) \in DOMAIN physics.ent_body_handles
                /\ physics.ent_body_handles[Entity(id)] \in DOMAIN physics.bodies
                /\ rigidbodies[id].handle # {}

\* C26: in every loop iteration the frame time gathered since the last report
\* is the fps timer plus the measured frame time; when it reaches one second
\* the figure becomes the number of ticks counted since the last report, the
\* count restarts at zero and the time beyond one second is kept for the next
\* window; otherwise the figure stays and time and count go on gathering.
C26_OneSecondWindows ==
    [][frames' = frames + 1 =>
          LET gathered == fps_timer + frame_time'
              counted == fps_counter + (tickCalls' - tickCalls)
          IN  IF gathered >= one_second
              THEN /\ fps' = counted
                   /\ fps_counter' = 0
                   /\ fps_timer' = gathered - one_second
              ELSE /\ fps' = fps
                   /\ fps_counter' = counted
                   /\ fps_timer' = gathered]_vars

\* C27: the handling of a Resized event leaves the accumulator, the tick
\* counter, the simulated time, the initialized flag, the fps timer, count and
\* figure, the last measured instant and frame time as they were and calls
\* neither tick_callback nor init_callback; the iteration that follows it runs
\* floor((A + d) / target_dt) ticks, A the accumulator of before the event and
\* d the iteration's delta.
C27_ResizeLeavesScheduler ==
    [][/\ (lastEvent' = "Resized" /\ winEvents' = winEvents + 1) =>
            UNCHANGED <<accumulator, ticks, time, is_initialized, fps_timer,
                        fps_counter, fps, current_time, frame_time, tickCalls,
                        initCalls>>
       /\ (frames' = frames + 1 /\ lastEvent = "Resized") =>
            tickCalls' = tickCalls
                           + RatFloorDiv(RatAdd(accumulator, delta'), target_dt)]_vars

\* C27's case: after a first iteration a Resized event to 1024x768 was
\* handled, and the iteration that followed it has run, with ticks behind it.
C27_Witness ==
    /\ lastEvent = "MainEventsCleared"
    /\ prevEvent = "Resized"
    /\ frames >= 2
    /\ tickCalls >= 2
    /\ renderer.size = <<1024, 768>>
    /\ is_initialized

\* C28: with the events of an iteration delivered in winit's order (window
\* events, MainEventsCleared, RedrawRequested), whenever render_callback has
\* been called init_callback has been called and has returned, also when a
\* Resized event asked for a redraw before the first MainEventsCleared.
C28_InitBeforeRender ==
    renderCalls >= 1 => (initCalls >= 1 /\ is_initialized)

\* C28's case: a Resized event to 1024x768 came before the first
\* MainEventsCleared, and the first render call has just been made.
C28_Witness ==
    /\ lastEvent = "RedrawRequested"
    /\ prevEvent = "MainEventsCleared"
    /\ frames = 1
    /\ renderCalls = 1
    /\ winEvents >= 1
    /\ renderer.size = <<1024, 768>>
    /\ initCalls = 1

====
